---- MODULE Spec2Model ----
(***************************************************************************)
(* A model of the task handler of tds_project_by_nav:                      *)
(*   src/generator.py  the response extractor, the relevance filter and    *)
(*                     the generation dispatcher;                          *)
(*   src/handlers.py   the repository publisher (rounds 1 and >= 2);       *)
(*   src/main.py       the intake endpoint.                                *)
(*                                                                         *)
(* Text is a sequence of symbols: the punctuation of a Python literal,     *)
(* the two quote characters, and words (any other run of characters).      *)
(***************************************************************************)
EXTENDS Integers, Sequences, FiniteSets, TLC

\* ------------------------------------------------------------------ text

LB == "{"
RB == "}"
LS == "["
RS == "]"
CO == ":"
CM == ","
SQ == "'"
DQ == "\""
NUM == "1"

Punct == {LB, RB, LS, RS, CO, CM}
Quotes == {SQ, DQ}

\* The indices of s that hold symbol c.
Indices(s, c) == {i \in 1..Len(s) : s[i] = c}

Min(S) == CHOOSE x \in S : \A y \in S : x <= y
Max(S) == CHOOSE x \in S : \A y \in S : x >= y

\* Whether text a occurs in text b as a contiguous run.
Contains(b, a) ==
    \E i \in 0..(Len(b) - Len(a)) : SubSeq(b, i + 1, i + Len(a)) = a

\* ------------------------------------------------- python values and AST

\* One shape for every value and syntax node: t the type, s the characters
\* of a str, e the elements (of a dict: records [k, v], in insertion order).
Node(t, s, e) == [t |-> t, s |-> s, e |-> e]
Str(s) == Node("str", s, <<>>)
IntVal == Node("int", <<>>, <<>>)
Name == Node("name", <<>>, <<>>)
Subscript == Node("subscript", <<>>, <<>>)
List(e) == Node("list", <<>>, e)
Dict(e) == Node("dict", <<>>, e)

\* ----------------------------------------------------------------- lexer

\* F applied to the value of x, computed once.
Let1(F(_), x) == CHOOSE r \in {F(a) : a \in {x}} : TRUE

PTok(c) == [k |-> "p", c |-> c, v |-> <<>>]
WTok(c) == [k |-> "w", c |-> c, v |-> <<>>]
STok(v) == [k |-> "s", c |-> "", v |-> v]

LexFail == [ok |-> FALSE, toks |-> <<>>]
LexCons(tk, r) == [ok |-> r.ok, toks |-> <<tk>> \o r.toks]

RECURSIVE LexFrom(_, _)
\* The tokens of s from index i on: a quote opens a string that runs to the
\* next quote of the same kind; a string that is never closed is an error.
LexFrom(s, i) ==
    IF i > Len(s) THEN [ok |-> TRUE, toks |-> <<>>]
    ELSE IF s[i] \in Quotes
    THEN LET close == {j \in (i + 1)..Len(s) : s[j] = s[i]} IN
         IF close = {} THEN LexFail
         ELSE Let1(LAMBDA j : Let1(LAMBDA r : LexCons(STok(SubSeq(s, i + 1, j - 1)), r),
                                   LexFrom(s, j + 1)),
                   Min(close))
    ELSE Let1(LAMBDA r : LexCons(IF s[i] \in Punct THEN PTok(s[i]) ELSE WTok(s[i]), r),
              LexFrom(s, i + 1))

Lex(s) == LexFrom(s, 1)

\* ---------------------------------------------------------------- parser

Fail == [ok |-> FALSE, node |-> Name, nxt |-> 0]
Parsed(node, nxt) == [ok |-> TRUE, node |-> node, nxt |-> nxt]
ElemsFail == [ok |-> FALSE, items |-> <<>>, nxt |-> 0, comma |-> FALSE]
IsP(t, i, c) == i <= Len(t) /\ t[i].k = "p" /\ t[i].c = c
\* close = "" stands for the end of the input.
AtClose(t, i, close) == IF close = "" THEN i > Len(t) ELSE IsP(t, i, close)

RECURSIVE ParseExpr(_, _)
RECURSIVE ParseElems(_, _, _)
RECURSIVE ParsePostfix(_, _, _)
RECURSIVE ParseSlices(_, _)
RECURSIVE ConcatStrings(_, _)

\* Adjacent string literals are one string.
ConcatStrings(t, i) ==
    IF i <= Len(t) /\ t[i].k = "s"
    THEN Let1(LAMBDA r : [s |-> t[i].v \o r.s, nxt |-> r.nxt], ConcatStrings(t, i + 1))
    ELSE [s |-> <<>>, nxt |-> i]

\* After the entry a [: b] that ends before index b.nxt: the closing symbol,
\* or a comma and the remaining entries.
ElemsAfter(t, a, b, pair, close) ==
    LET item == [k |-> a.node, v |-> b.node, pair |-> pair] IN
    IF ~b.ok THEN ElemsFail
    ELSE IF AtClose(t, b.nxt, close)
    THEN [ok |-> TRUE, items |-> <<item>>, nxt |-> b.nxt + 1, comma |-> FALSE]
    ELSE IF IsP(t, b.nxt, CM)
    THEN Let1(LAMBDA r : [ok |-> r.ok, items |-> <<item>> \o r.items, nxt |-> r.nxt,
                          comma |-> TRUE],
              ParseElems(t, b.nxt + 1, close))
    ELSE ElemsFail

\* Entries up to the closing symbol: expr or expr ':' expr, comma separated,
\* a trailing comma allowed.  items holds [k, v, pair] records.
ParseElems(t, i, close) ==
    IF AtClose(t, i, close) THEN [ok |-> TRUE, items |-> <<>>, nxt |-> i + 1, comma |-> FALSE]
    ELSE Let1(LAMBDA a :
                IF ~a.ok THEN ElemsFail
                ELSE IF IsP(t, a.nxt, CO)
                THEN Let1(LAMBDA b : ElemsAfter(t, a, b, TRUE, close),
                          ParseExpr(t, a.nxt + 1))
                ELSE ElemsAfter(t, a, a, FALSE, close),
              ParseExpr(t, i))

Values(items) == [n \in 1..Len(items) |-> items[n].k]
Pairs(items) == [n \in 1..Len(items) |-> [k |-> items[n].k, v |-> items[n].v]]

\* An optional expression of a slice: absent before ':' ',' ']' or the end.
SliceOpt(t, i) ==
    IF i > Len(t) \/ IsP(t, i, CO) \/ IsP(t, i, CM) \/ IsP(t, i, RS)
    THEN Parsed(Name, i)
    ELSE ParseExpr(t, i)

\* One slice: expr, or [expr] ':' [expr] [':' [expr]].  Returns where it
\* ends, or 0.
ParseSlice(t, i) ==
    Let1(LAMBDA a :
           IF ~a.ok THEN 0
           ELSE IF ~IsP(t, a.nxt, CO) THEN (IF a.nxt = i THEN 0 ELSE a.nxt)
           ELSE Let1(LAMBDA b :
                       IF ~b.ok THEN 0
                       ELSE IF ~IsP(t, b.nxt, CO) THEN b.nxt
                       ELSE Let1(LAMBDA c : IF c.ok THEN c.nxt ELSE 0,
                                 SliceOpt(t, b.nxt + 1)),
                     SliceOpt(t, a.nxt + 1)),
         SliceOpt(t, i))

\* The slices of a subscript after its '[': returns the index after ']', or 0.
ParseSlices(t, i) ==
    Let1(LAMBDA p :
           IF p = 0 THEN 0
           ELSE IF IsP(t, p, RS) THEN p + 1
           ELSE IF IsP(t, p, CM)
           THEN (IF IsP(t, p + 1, RS) THEN p + 2 ELSE ParseSlices(t, p + 1))
           ELSE 0,
         ParseSlice(t, i))

\* Subscripts after an atom: atom '[' slices ']' ...
ParsePostfix(t, node, i) ==
    IF IsP(t, i, LS)
    THEN Let1(LAMBDA p : IF p = 0 THEN Fail ELSE ParsePostfix(t, Subscript, p),
              ParseSlices(t, i + 1))
    ELSE Parsed(node, i)

\* [ ... ]: a list; an entry with ':' is no list element.
ListOf(r) ==
    IF r.ok /\ \A n \in 1..Len(r.items) : ~r.items[n].pair
    THEN Parsed(List(Values(r.items)), r.nxt)
    ELSE Fail

\* { ... }: a dict when every entry has ':', a set when none has.
BraceOf(r) ==
    IF ~r.ok THEN Fail
    ELSE IF \A n \in 1..Len(r.items) : r.items[n].pair
    THEN Parsed(Dict(Pairs(r.items)), r.nxt)
    ELSE IF \A n \in 1..Len(r.items) : ~r.items[n].pair
    THEN Parsed(Node("set", <<>>, Values(r.items)), r.nxt)
    ELSE Fail

ParseAtom(t, i) ==
    IF i > Len(t) THEN Fail
    ELSE IF t[i].k = "w"
    THEN Parsed(IF t[i].c = NUM THEN IntVal ELSE Name, i + 1)
    ELSE IF t[i].k = "s"
    THEN Let1(LAMBDA r : Parsed(Str(r.s), r.nxt), ConcatStrings(t, i))
    ELSE IF t[i].c = LS THEN Let1(ListOf, ParseElems(t, i + 1, RS))
    ELSE IF t[i].c = LB THEN Let1(BraceOf, ParseElems(t, i + 1, RB))
    ELSE Fail

ParseExpr(t, i) ==
    Let1(LAMBDA a : IF a.ok THEN ParsePostfix(t, a.node, a.nxt) ELSE Fail,
         ParseAtom(t, i))

\* A whole expression: one expression, or a bare tuple of them.
TopOf(r) ==
    IF ~r.ok \/ r.items = <<>> \/ \E n \in 1..Len(r.items) : r.items[n].pair THEN Fail
    ELSE IF Len(r.items) = 1 /\ ~r.comma THEN Parsed(r.items[1].k, 0)
    ELSE Parsed(Node("tuple", <<>>, Values(r.items)), 0)

ParseTop(t) == Let1(TopOf, ParseElems(t, 1, ""))

\* --------------------------------------------------------- ast.literal_eval

Hashable(v) == v.t \in {"str", "int"}

\* d[k] = v on an insertion-ordered dict: an existing key keeps its place.
DictPut(d, k, v) ==
    IF \E n \in 1..Len(d) : d[n].k = k
    THEN [n \in 1..Len(d) |-> IF d[n].k = k THEN [k |-> k, v |-> v] ELSE d[n]]
    ELSE Append(d, [k |-> k, v |-> v])

Raise(exc, what) == [st |-> exc, val |-> Str(<<what>>)]
Ok(v) == [st |-> "ok", val |-> v]

RECURSIVE Convert(_)
RECURSIVE ConvertList(_, _, _)
RECURSIVE ConvertSet(_, _)
RECURSIVE ConvertDict(_, _, _)

\* list(map(_convert, elts)), from element n on, acc the elements so far.
ConvertList(e, n, acc) ==
    IF n > Len(e) THEN Ok(acc)
    ELSE Let1(LAMBDA c : IF c.st # "ok" THEN c
                         ELSE ConvertList(e, n + 1, Append(acc, c.val)),
              Convert(e[n]))

\* set(map(_convert, elts)): each element is converted, then hashed.
ConvertSet(e, n) ==
    IF n > Len(e) THEN Ok(Node("set", <<>>, <<>>))
    ELSE Let1(LAMBDA c : IF c.st # "ok" THEN c
                         ELSE IF ~Hashable(c.val) THEN Raise("TypeError", c.val.t)
                         ELSE ConvertSet(e, n + 1),
              Convert(e[n]))

\* dict(zip(map(_convert, keys), map(_convert, values))): per pair the key is
\* converted, then the value, then the key is hashed.
ConvertDict(e, n, acc) ==
    IF n > Len(e) THEN Ok(Dict(acc))
    ELSE Let1(LAMBDA k :
                IF k.st # "ok" THEN k
                ELSE Let1(LAMBDA v :
                            IF v.st # "ok" THEN v
                            ELSE IF ~Hashable(k.val) THEN Raise("TypeError", k.val.t)
                            ELSE ConvertDict(e, n + 1, DictPut(acc, k.val, v.val)),
                          Convert(e[n].v)),
              Convert(e[n].k))

Convert(node) ==
    CASE node.t \in {"str", "int"} -> Ok(node)
      [] node.t \in {"list", "tuple"} ->
            Let1(LAMBDA r : IF r.st = "ok" THEN Ok(Node(node.t, <<>>, r.val)) ELSE r,
                 ConvertList(node.e, 1, <<>>))
      [] node.t = "set" -> ConvertSet(node.e, 1)
      [] node.t = "dict" -> ConvertDict(node.e, 1, <<>>)
      [] OTHER -> Raise("ValueError", "malformed node or string")

\* ast.literal_eval of a string: st is "ok" or the exception's class.
LiteralEval(s) ==
    Let1(LAMBDA lx :
           IF ~lx.ok THEN Raise("SyntaxError", "invalid syntax")
           ELSE Let1(LAMBDA p : IF ~p.ok THEN Raise("SyntaxError", "invalid syntax")
                                ELSE Convert(p.node),
                     ParseTop(lx.toks)),
         Lex(s))

\* ast.literal_eval of any value: a value that is not a string is no syntax
\* node, which is a ValueError.
LiteralEvalValue(v) ==
    IF v.t = "str" THEN LiteralEval(v.s)
    ELSE Raise("ValueError", "malformed node or string")

\* ------------------------------------------------- Response Extractor

IndexHtml == <<"index.html">>
ErrorTxt == <<"error.txt">>
ErrorHtml == <<"error.html">>

ParseFailedPrefix == <<"Failed to parse LLM response.", "Raw Content:">>
HtmlOpen == <<"<html><body><h1>Failed to generate app via LLM</h1><pre>">>
HtmlClose == <<"</pre></body></html>">>

\* A provider reply: kind "text" with its content, "raise" (the call itself
\* raised, content the exception's text) or "none" (a reply without content).
TextReply(c) == [kind |-> "text", content |-> c]

OneFile(path, content) == Dict(<<[k |-> Str(path), v |-> Str(content)]>>)

\* str(e) of the exceptions a reply can cause.
UnhashableMsg(t) == <<"unhashable type:", SQ, t, SQ>>
NoneMsg == <<"expected string or bytes-like object, got", SQ, "NoneType", SQ>>

\* The except-Exception branch: the error document around the exception text.
ErrorDocument(msg) == OneFile(ErrorHtml, HtmlOpen \o msg \o HtmlClose)

\* A non-greedy search, r'\{.*?\}': from the first '{' to the first '}' after it.
BraceSpanLazy(content) ==
    LET open == Indices(content, LB)
        close == {j \in Indices(content, RB) : open # {} /\ j > Min(open)}
    IN  IF open = {} \/ close = {} THEN <<>>
        ELSE SubSeq(content, Min(open), Min(close))

\* re.search(r'\{.*\}', content, re.DOTALL): from the first '{' that has a
\* '}' after it to the last '}'; <<>> when there is no match.
BraceSpan(content) ==
    LET open == Indices(content, LB)
        close == Indices(content, RB)
    IN  IF open = {} \/ close = {} \/ Min(open) > Max(close) THEN <<>>
        ELSE SubSeq(content, Min(open), Max(close))

\* A fallback that publishes nothing when the reply holds no dictionary.
NoMatchEmpty(content) == Dict(<<>>)

\* No dictionary in the reply: the raw content becomes the only file.
NoMatchFallback(content) == OneFile(IndexHtml, content)

\* _execute_llm_call after the provider has answered: the dict it returns.
ExecuteLlmCall(reply) ==
    IF reply.kind = "raise" THEN ErrorDocument(reply.content)
    ELSE IF reply.kind = "none" THEN ErrorDocument(NoneMsg)
    ELSE LET content == reply.content
             dict_str == BraceSpan(content)
         IN  IF dict_str = <<>> THEN NoMatchFallback(content)
             ELSE Let1(LAMBDA files :
                         IF files.st = "ok" /\ files.val.t = "dict" THEN files.val
                         ELSE IF files.st \in {"ok", "ValueError", "SyntaxError"}
                         THEN OneFile(ErrorTxt, ParseFailedPrefix \o content)
                         ELSE ErrorDocument(UnhashableMsg(files.val.s[1])),
                       LiteralEval(dict_str))

\* ------------------------------------------- Relevance Filter, Orchestrator

RECURSIVE FilterFrom(_, _, _)
\* The loop over response_dict.items() from entry n on: the first value that
\* evaluates to a list is returned; ValueError and SyntaxError move on to the
\* next value; any other exception leaves the function.
FilterFrom(e, n, file_list) ==
    IF n > Len(e) THEN Ok(file_list)
    ELSE Let1(LAMBDA r :
                IF r.st = "ok" /\ r.val.t = "list" THEN Ok(r.val)
                ELSE IF r.st \in {"ok", "ValueError", "SyntaxError"}
                THEN FilterFrom(e, n + 1, file_list)
                ELSE r,
              LiteralEvalValue(e[n].v))

\* _llm_filter_relevant_files after its provider call: st "ok" and the list
\* it returns, or the exception that leaves it.
LlmFilterRelevantFiles(response_dict, file_list) ==
    FilterFrom(response_dict.e, 1, file_list)

Keys(d) == [n \in 1..Len(d.e) |-> d.e[n].k]
HasKey(d, k) == \E n \in 1..Len(d.e) : d.e[n].k = k
Get(d, k) == d.e[CHOOSE n \in 1..Len(d.e) : d.e[n].k = k].v

RECURSIVE ContextFrom(_, _, _, _)
\* {path: existing_files[path] for path in relevant if path in existing_files}:
\* the membership test hashes the path.
ContextFrom(existing_files, relevant, n, acc) ==
    IF n > Len(relevant) THEN Ok(Dict(acc))
    ELSE IF ~Hashable(relevant[n]) THEN Raise("TypeError", relevant[n].t)
    ELSE IF HasKey(existing_files, relevant[n])
    THEN ContextFrom(existing_files, relevant, n + 1,
                     DictPut(acc, relevant[n], Get(existing_files, relevant[n])))
    ELSE ContextFrom(existing_files, relevant, n + 1, acc)

\* A context that takes every existing file.
ContextFilesAll(existing_files, relevant_file_paths) == Ok(existing_files)

ContextFiles(existing_files, relevant_file_paths) ==
    ContextFrom(existing_files, relevant_file_paths.e, 1, <<>>)

\* ---------------------------------------------------------- remote store
\* The repository of the task at the hosting provider: whether it exists,
\* its files (path -> bytes) and whether static hosting is on.  A path and a
\* file's bytes are texts; "/" separates the directories of a path.

SL == "/"

NoRepo == [exists |-> FALSE, files |-> <<>>, pages |-> FALSE]

\* The content hash the store keeps as a file's version identifier.
BlobSha(content) == <<"sha1:">> \o content

\* What auto_init with a license template puts into a new repository.
AutoInitFiles ==
    (<<"README.md">> :> <<"#", "task">>) @@ (<<"LICENSE">> :> <<"MIT", "License">>)

\* Every path the model ever stores, in the order a listing gives them.
PathOrder ==
    <<<<"LICENSE">>, <<"README.md">>, <<"error.html">>, <<"error.txt">>,
      <<"index.html">>, <<"logo.png">>, <<"notes.txt">>,
      <<"src", SL, "app.js">>, <<"style.css">>>>

\* Whether path p lies under directory d (<<>> is the root).
Under(d, p) ==
    \/ d = <<>> /\ p # <<>>
    \/ Len(p) > Len(d) + 1 /\ SubSeq(p, 1, Len(d)) = d /\ p[Len(d) + 1] = SL

\* The entry of directory d that leads to p: p itself, a file, or the
\* sub-directory of d that holds p.
ItemFor(d, p) ==
    LET from == IF d = <<>> THEN 1 ELSE Len(d) + 2
        slashes == {i \in from..Len(p) : p[i] = SL}
    IN  IF slashes = {} THEN [type |-> "file", path |-> p]
        ELSE [type |-> "dir", path |-> SubSeq(p, 1, Min(slashes) - 1)]

RECURSIVE ListFrom(_, _, _)
\* GET contents/{d}: the entries of directory d, each once.
ListFrom(files, d, n) ==
    IF n > Len(PathOrder) THEN <<>>
    ELSE LET p == PathOrder[n]
             rest == ListFrom(files, d, n + 1)
         IN  IF p \in DOMAIN files /\ Under(d, p)
                /\ \A m \in 1..(n - 1) :
                     ~(PathOrder[m] \in DOMAIN files /\ Under(d, PathOrder[m])
                       /\ ItemFor(d, PathOrder[m]) = ItemFor(d, p))
             THEN <<ItemFor(d, p)>> \o rest
             ELSE rest

ListDir(files, d) == ListFrom(files, d, 1)

\* PUT contents/{path}: accepted when the version identifier sent is the
\* one of the file stored (none when there is no file).
PutAccepted(r, path, sha) ==
    /\ r.exists
    /\ IF path \in DOMAIN r.files THEN sha = BlobSha(r.files[path]) ELSE sha = <<>>

\* ------------------------------------------------------------ rendering
\* How a value is written as the text of a Python literal.

Quoted(s) == <<SQ>> \o s \o <<SQ>>

RECURSIVE RenderPairs(_, _)
\* 'k1': 'v1', 'k2': 'v2' ... of the [k, v] string pairs of m from n on.
RenderPairs(m, n) ==
    IF n > Len(m) THEN <<>>
    ELSE Quoted(m[n].k) \o <<CO>> \o Quoted(m[n].v)
         \o (IF n < Len(m) THEN <<CM>> ELSE <<>>) \o RenderPairs(m, n + 1)

RenderMapping(m) == <<LB>> \o RenderPairs(m, 1) \o <<RB>>

RECURSIVE Flat(_)
\* The text of a sequence of pieces, each a text of its own.
Flat(pieces) == IF pieces = <<>> THEN <<>> ELSE Head(pieces) \o Flat(Tail(pieces))

RECURSIVE SeqsUpTo(_, _)
\* Every sequence over S of length at most n.
SeqsUpTo(S, n) ==
    IF n = 0 THEN {<<>>}
    ELSE LET T == SeqsUpTo(S, n - 1) IN
         T \cup {Append(t, x) : t \in {u \in T : Len(u) = n - 1}, x \in S}

\* ------------------------------------------------------ bounds and inputs

MaxLen == 3
MaxEntries == 2
MaxProse == 1

\* The pieces replies are made of: punctuation, a word, a number, string
\* literals (one of them holding a brace), and a quote left open.
Pieces ==
    {<<LB>>, <<RB>>, <<LS>>, <<RS>>, <<CO>>, <<CM>>, <<"hello">>, <<SQ>>,
     Quoted(<<"a.js">>), Quoted(<<"x", RB>>)}

FreeTexts == {Flat(t) : t \in SeqsUpTo(Pieces, MaxLen)}

\* Prose without braces, as a model writes around its answer.
ProseTexts == SeqsUpTo({"Here", SQ, CO}, MaxProse)

KeyStrings == {<<"index.html">>, <<"style.css">>}
ValueStrings == {<<"code">>, <<"body", LB, "margin", CO, NUM, RB>>}
Mappings ==
    SeqsUpTo({[k |-> k, v |-> v] : k \in KeyStrings, v \in ValueStrings}, MaxEntries)

ExceptionTexts == {<<"Connection error.">>}

MaxExisting == 2
MaxList == 2

\* The files a repository may hold, in listing order, with their contents.
KnownFiles ==
    <<[k |-> Str(<<"index.html">>), v |-> Str(<<"<h1>", "todo", "</h1>">>)],
      [k |-> Str(<<"src", "/", "app.js">>), v |-> Str(<<"run", "(", ")">>)],
      [k |-> Str(<<"style.css">>), v |-> Str(<<"body", LB, RB>>)],
      [k |-> Str(<<"README.md">>), v |-> Str(<<"#", "todo">>)]>>

\* existing_files: None or {} on creation, else the first files of KnownFiles.
ExistingFileSets ==
    {Dict(SubSeq(KnownFiles, 1, n)) : n \in 0..Min({MaxExisting, Len(KnownFiles)})}

RECURSIVE RenderItems(_, _)
RenderItems(items, n) ==
    IF n > Len(items) THEN <<>>
    ELSE items[n] \o (IF n < Len(items) THEN <<CM>> ELSE <<>>) \o RenderItems(items, n + 1)

RenderList(items) == <<LS>> \o RenderItems(items, 1) \o <<RS>>

\* What a relevance reply may list: a known path, another known path, an
\* unknown path, a number, a nested list.
ListElements ==
    {Quoted(<<"index.html">>), Quoted(<<"style.css">>), Quoted(<<"nope.txt">>),
     <<NUM>>, <<LS, RS>>}

ListTexts == {RenderList(items) : items \in SeqsUpTo(ListElements, MaxList)}

DQuoted(s) == <<DQ>> \o s \o <<DQ>>

\* The values of a relevance reply that is a dictionary: the text of a list,
\* text that is no literal, the text of a set of a list, a list itself.
DictValues ==
    {DQuoted(RenderList(<<Quoted(<<"style.css">>)>>)), Quoted(<<"hello">>),
     Quoted(<<LB, LS, RS, RB>>), RenderList(<<Quoted(<<"index.html">>)>>)}

RelevanceReplies ==
    {TextReply(pre \o t) : pre \in ProseTexts, t \in ListTexts}
    \cup {TextReply(<<LB>> \o Quoted(<<"files">>) \o <<CO>> \o v \o <<RB>>) :
            v \in DictValues}
    \cup {TextReply(<<LB>> \o Quoted(<<"note">>) \o <<CO>> \o v \o <<CM>>
                    \o Quoted(<<"files">>) \o <<CO>> \o w \o <<RB>>) :
            v \in DictValues, w \in DictValues}
    \cup {TextReply(<<"I", "cannot", "tell">>), TextReply(<<LB, LS, RS, RB>>),
          TextReply(<<LB, "hello", RB>>), TextReply(<<LB, RB>>)}
    \cup {[kind |-> "raise", content |-> c] : c \in ExceptionTexts}

\* The replies to the synthesis and the modification instruction.
GenReplies ==
    {TextReply(pre \o RenderMapping(m)) : pre \in ProseTexts, m \in Mappings}
    \cup {TextReply(<<"Sorry">>), TextReply(<<LB, LS, RS, RB>>),
          TextReply(<<LB, "hello", RB>>),
          TextReply(<<LB, LS, RS, CO, SQ, "code", SQ, RB>>)}
    \cup {[kind |-> "raise", content |-> c] : c \in ExceptionTexts}


\* ------------------------------------------------- attachments and overlay

Bytes(s) == Node("bytes", s, <<>>)

RECURSIVE Split(_)
\* url.split(","): the pieces of the text between its commas.
Split(s) ==
    IF Indices(s, CM) = {} THEN <<s>>
    ELSE LET i == Min(Indices(s, CM))
         IN  <<SubSeq(s, 1, i - 1)>> \o Split(SubSeq(s, i + 1, Len(s)))

\* The base64 texts the model knows and the bytes they stand for.
Base64Table ==
    (<<"PGI+">> :> <<"<b>">>) @@ (<<"UE5H">> :> <<"PNG">>)
    @@ (<<"Ly8=">> :> <<"//">>) @@ (<<>> :> <<>>)

\* base64.b64decode(piece): the bytes, or binascii.Error.
B64Decode(piece) ==
    IF piece \in DOMAIN Base64Table THEN Ok(Bytes(Base64Table[piece]))
    ELSE Raise("binascii.Error", "Incorrect padding")

\* base64.b64decode(att.url.split(",")[1])
AttachmentBytes(att) ==
    LET pieces == Split(att.url)
    IN  IF Len(pieces) < 2 THEN Raise("IndexError", "list index out of range")
        ELSE B64Decode(pieces[2])

\* An overlay in which a generated file keeps its content.
KeepGenerated(files, name, content) ==
    IF HasKey(files, Str(name)) THEN files
    ELSE Dict(DictPut(files.e, Str(name), content))

\* files_to_upload[att.name] = <the bytes of the attachment>
OverlayAttachment(files, name, content) ==
    Dict(DictPut(files.e, Str(name), content))

RECURSIVE OverlayFrom(_, _, _)
\* for att in task.attachments: ... from the n-th attachment on; the first
\* attachment that does not decode raises.
OverlayFrom(files, attachments, n) ==
    IF n > Len(attachments) THEN Ok(files)
    ELSE Let1(LAMBDA content :
                IF content.st # "ok" THEN content
                ELSE OverlayFrom(OverlayAttachment(files, attachments[n].name, content.val),
                                 attachments, n + 1),
              AttachmentBytes(attachments[n]))

Overlay(files, attachments) == OverlayFrom(files, attachments, 1)

\* ------------------------------------------------- inputs of the workflow

MaxRound == 2
MaxAttachments == 1

ExpectedSecret == "s3cret"

\* An attachment that replaces a generated file, one with a path of its own,
\* one whose URL has two commas, one whose URL has none.
AttachmentPool ==
    {[name |-> <<"index.html">>, url |-> <<"data:text/html;base64", CM, "PGI+">>],
     [name |-> <<"logo.png">>, url |-> <<"data:image/png;base64", CM, "UE5H">>],
     [name |-> <<"index.html">>, url |-> <<"data:", CM, "Ly8=", CM, "x">>],
     [name |-> <<"notes.txt">>, url |-> <<"aGk=">>]}

Requests ==
    {[present |-> TRUE, secret |-> s, round |-> r, attachments |-> a] :
        s \in {ExpectedSecret, "guess"}, r \in (0 - 1)..MaxRound,
        a \in SeqsUpTo(AttachmentPool, MaxAttachments)}

\* What the provider answers to a synthesis or a modification call: two
\* files, one file, prose, an empty mapping, a content that is no text, an
\* exception.
WorkReplies ==
    {TextReply(RenderMapping(<<[k |-> <<"index.html">>, v |-> <<"code">>],
                               [k |-> <<"style.css">>, v |-> <<"body", LB, RB>>]>>)),
     TextReply(RenderMapping(<<[k |-> <<"index.html">>, v |-> <<"code">>]>>)),
     TextReply(<<"Sorry">>),
     TextReply(<<LB, RB>>),
     TextReply(<<LB>> \o Quoted(<<"index.html">>) \o <<CO, LS, RS, RB>>),
     [kind |-> "raise", content |-> <<"Connection error.">>]}

\* What it answers to a relevance call: one known path, nothing, a list
\* holding a list, prose.
WorkRelevanceReplies ==
    {TextReply(RenderList(<<Quoted(<<"index.html">>)>>)), TextReply(<<LS, RS>>),
     TextReply(<<LS, LS, RS, RS>>), TextReply(<<"Sorry">>)}

\* The files of a repository from the entries of a mapping.
FilesOf(entries) ==
    [p \in {entries[n].k.s : n \in 1..Len(entries)} |->
        entries[CHOOSE n \in 1..Len(entries) : entries[n].k.s = p].v.s]

\* The repository a task finds: none, or one left by an earlier round.
InitialRepos ==
    {NoRepo}
    \cup {[exists |-> TRUE, files |-> FilesOf(e.e), pages |-> TRUE] :
            e \in ExistingFileSets}

\* ------------------------------------------------------------------ state

VARIABLES
    ex,        \* one call of _execute_llm_call: the provider's reply and the result
    gen,       \* one call of generate_app_code: its inputs, locals and result
    req,       \* per task: the TaskRequest received
    pc,        \* per task: where its handler stands
    loc,       \* per task: the locals of the round handler
    last,      \* per task: the last call to a remote service and its status
    cnt,       \* per task: how many calls it has made, by service
    response,  \* per task: the HTTP status given to the requester (0: none yet)
    repo,      \* the repository at the hosting provider
    commits,   \* how many commits the store has made; the newest commit's id
    sink,      \* the notifications the evaluation sink has accepted
    writes     \* per task: the writes the store has committed for it, in order

workflow == <<req, pc, loc, last, cnt, response, repo, commits, sink, writes>>

vars == <<ex, gen, req, pc, loc, last, cnt, response, repo, commits, sink, writes>>

Tasks == {"t1", "t2"}

NoCall == [op |-> "none", path |-> <<>>, body |-> <<>>, status |-> 0]
NoCalls == [llm |-> 0, store |-> 0, notify |-> 0]
NoRequest == [present |-> FALSE]

NoValue == Node("none", <<>>, <<>>)

\* The locals of a round handler before it runs.
NoLocals ==
    [existing_files |-> Dict(<<>>), todo |-> <<>>, generated |-> NoValue,
     files |-> Dict(<<>>), i |-> 0, existing_file_sha |-> <<>>,
     checked_at |-> 0, latest_commit_sha |-> 0]

\* No task has been received and there is no repository.
WorkflowIdle ==
    /\ req = [t \in Tasks |-> NoRequest]
    /\ pc = [t \in Tasks |-> "absent"]
    /\ loc = [t \in Tasks |-> NoLocals]
    /\ last = [t \in Tasks |-> NoCall]
    /\ cnt = [t \in Tasks |-> NoCalls]
    /\ response = [t \in Tasks |-> 0]
    /\ repo = NoRepo
    /\ commits = 0
    /\ sink = {}
    /\ writes = [t \in Tasks |-> <<>>]

\* ---------------------------------------- the extractor on its own (SpecExtract)

ExRecord(shape, reply, mapping) ==
    [pc |-> "call", shape |-> shape, reply |-> reply, mapping |-> mapping,
     result |-> NoValue]

\* The replies a provider can give: any short text, a mapping literal inside
\* brace-free prose, an exception, a reply without content.
ExInputs ==
    {ExRecord("free", TextReply(c), <<>>) : c \in FreeTexts}
    \cup {ExRecord("mapping", TextReply(pre \o RenderMapping(m) \o post), m) :
            pre \in ProseTexts, post \in ProseTexts, m \in Mappings}
    \cup {ExRecord("raise", [kind |-> "raise", content |-> c], <<>>) : c \in ExceptionTexts}
    \cup {ExRecord("none", [kind |-> "none", content |-> <<>>], <<>>)}
    \cup {ExRecord("free", r, <<>>) : r \in GenReplies}

GenIdle == [pc |-> "idle"]

ExInit == ex \in ExInputs /\ gen = GenIdle /\ WorkflowIdle

\* _execute_llm_call: the provider answers and the reply is parsed.
ExCall ==
    /\ ex.pc = "call"
    /\ ex' = [ex EXCEPT !.pc = "returned", !.result = ExecuteLlmCall(ex.reply)]
    /\ UNCHANGED <<gen, workflow>>

SpecExtract == ExInit /\ [][ExCall]_vars

\* ------------------------------- generate_app_code on its own (SpecGen)

GenRecord(existing_files) ==
    [pc |-> "start", existing_files |-> existing_files, response_dict |-> NoValue,
     relevant_file_paths |-> NoValue, context_files |-> NoValue, result |-> NoValue]

ExIdle == [pc |-> "idle"]

GenInit == gen \in {GenRecord(e) : e \in ExistingFileSets} /\ ex = ExIdle /\ WorkflowIdle

\* The else branch: nothing to modify, one synthesis call.
GenerateNewApp ==
    /\ gen.pc = "start" /\ gen.existing_files.e = <<>>
    /\ \E reply \in GenReplies :
         gen' = [gen EXCEPT !.pc = "returned", !.result = ExecuteLlmCall(reply)]
    /\ UNCHANGED <<ex, workflow>>

\* The modification branch up to the context: the relevance call, the
\* filter, the context subset.  An exception leaves generate_app_code.
FilterRelevantFiles ==
    /\ gen.pc = "start" /\ gen.existing_files.e # <<>>
    /\ \E reply \in RelevanceReplies :
         LET response_dict == ExecuteLlmCall(reply)
             all_file_paths == List(Keys(gen.existing_files))
             relevant == LlmFilterRelevantFiles(response_dict, all_file_paths)
             context == ContextFiles(gen.existing_files, relevant.val)
         IN  gen' = IF relevant.st # "ok"
                    THEN [gen EXCEPT !.pc = "raised", !.response_dict = response_dict]
                    ELSE IF context.st # "ok"
                    THEN [gen EXCEPT !.pc = "raised", !.response_dict = response_dict,
                                     !.relevant_file_paths = relevant.val]
                    ELSE [gen EXCEPT !.pc = "modify", !.response_dict = response_dict,
                                     !.relevant_file_paths = relevant.val,
                                     !.context_files = context.val]
    /\ UNCHANGED <<ex, workflow>>

\* _modify_existing_app with the context: one modification call.
ModifyExistingApp ==
    /\ gen.pc = "modify"
    /\ \E reply \in GenReplies :
         gen' = [gen EXCEPT !.pc = "returned", !.result = ExecuteLlmCall(reply)]
    /\ UNCHANGED <<ex, workflow>>

GenNext == GenerateNewApp \/ FilterRelevantFiles \/ ModifyExistingApp

SpecGen == GenInit /\ [][GenNext]_vars

\* ------------------------------------------------------ the workflow (Spec)
\* One action per call to a remote service, with the local computation that
\* follows it up to the next call.  A service may fail any call (status 500).

Init ==
    /\ ex = ExIdle /\ gen = GenIdle
    /\ \E r \in Requests :
         req = [t \in Tasks |-> IF t = "t1" THEN r ELSE NoRequest]
    /\ pc = [t \in Tasks |-> IF t = "t1" THEN "received" ELSE "absent"]
    /\ loc = [t \in Tasks |-> NoLocals]
    /\ last = [t \in Tasks |-> NoCall]
    /\ cnt = [t \in Tasks |-> NoCalls]
    /\ response = [t \in Tasks |-> 0]
    /\ repo \in InitialRepos
    /\ commits = IF repo.exists THEN 1 ELSE 0
    /\ sink = {}
    /\ writes = [t \in Tasks |-> <<>>]

\* The call of task t to service svc and the status it got.
Called(t, svc, op, path, body, status) ==
    /\ last' = [last EXCEPT ![t] = [op |-> op, path |-> path, body |-> body,
                                    status |-> status]]
    /\ cnt' = [cnt EXCEPT ![t][svc] = @ + 1]

\* A dispatch without the else branch.
RoundBranchAny(round) == IF round = 1 THEN "create" ELSE "fetch"

\* if task.round == 1 ... elif task.round > 1 ... else raise
RoundBranch(round) ==
    IF round = 1 THEN "create" ELSE IF round > 1 THEN "fetch" ELSE "raised"

\* receive_task up to the first remote call of handle_task: the secret is
\* compared, then the round number chooses the handler.
ReceiveTask(t) ==
    /\ pc[t] = "received"
    /\ IF req[t].secret # ExpectedSecret
       THEN /\ pc' = [pc EXCEPT ![t] = "done"]
            /\ response' = [response EXCEPT ![t] = 403]
            /\ UNCHANGED loc
       ELSE /\ pc' = [pc EXCEPT ![t] = RoundBranch(req[t].round)]
            /\ loc' = [loc EXCEPT ![t].todo =
                          IF RoundBranch(req[t].round) = "fetch"
                          THEN <<[type |-> "dir", path |-> <<>>]>>
                          ELSE <<>>]
            /\ UNCHANGED response
    /\ UNCHANGED <<ex, gen, req, last, cnt, repo, commits, sink, writes>>

\* A creation whose status is not looked at.
CreateFailedNever(status) == FALSE

\* if create_resp.status_code != 201: raise
CreateFailed(status) == status # 201

\* _handle_round_1: POST /user/repos.  The provider makes the repository,
\* with its first commit, when it answers 201.
CreateRepo(t) ==
    /\ pc[t] = "create"
    /\ \E fail \in BOOLEAN :
         LET status == IF fail THEN 500 ELSE IF repo.exists THEN 422 ELSE 201
         IN  /\ Called(t, "store", "create", <<>>, <<>>, status)
             /\ pc' = [pc EXCEPT ![t] = IF CreateFailed(status) THEN "raised" ELSE "synth"]
             /\ IF status # 201
                THEN UNCHANGED <<repo, commits>>
                ELSE /\ repo' = [exists |-> TRUE, files |-> AutoInitFiles,
                                 pages |-> FALSE]
                     /\ commits' = commits + 1
    /\ UNCHANGED <<ex, gen, req, loc, response, sink, writes>>

\* A handler that notifies with whatever commit id it has.
AfterRoundAlways(latest_commit_sha) == "notify"

\* Where a round goes once its uploads are over: the notification needs a
\* commit id (if not latest_commit_sha: raise).
AfterRound(latest_commit_sha) ==
    IF latest_commit_sha = 0 THEN "raised" ELSE "notify"

\* An upload loop that writes the snapshot back as well.
UploadItemsAll(l) == l.existing_files.e \o l.files.e

\* The items the upload loop goes through.
UploadItems(l) == l.files.e

\* The generated files with the attachments over them, and where the round
\* goes from there.
Generated(t, generated, empty) ==
    LET files == Overlay(generated, req[t].attachments)
    IN  IF files.st # "ok"
        THEN /\ pc' = [pc EXCEPT ![t] = "raised"]
             /\ loc' = [loc EXCEPT ![t].generated = generated]
        ELSE LET l == [loc[t] EXCEPT !.generated = generated, !.files = files.val,
                                     !.i = 1]
             IN  /\ loc' = [loc EXCEPT ![t] = l]
                 /\ pc' = [pc EXCEPT ![t] =
                             IF UploadItems(l) = <<>> THEN empty ELSE "get"]

\* _handle_round_1: generate_app_code without existing files, one synthesis
\* call, then the attachments.
Synthesize(t) ==
    /\ pc[t] = "synth"
    /\ \E reply \in WorkReplies :
         /\ Called(t, "llm", "synthesis", <<>>, <<>>,
                   IF reply.kind = "raise" THEN 500 ELSE 200)
         /\ Generated(t, ExecuteLlmCall(reply), "pages")
    /\ UNCHANGED <<ex, gen, req, response, repo, commits, sink, writes>>

\* A handler that generates whatever the snapshot holds.
AfterFetchAlways(existing_files) == "filter"

\* if not existing_files: raise
AfterFetch(existing_files) ==
    IF existing_files.e = <<>> THEN "raised" ELSE "filter"

\* _handle_round_2 once _get_repo_files has returned: an empty snapshot
\* raises, any other goes to generate_app_code, which takes its
\* modification branch for it.
Fetched(t, l) ==
    /\ loc' = [loc EXCEPT ![t] = l]
    /\ pc' = [pc EXCEPT ![t] =
                IF l.todo # <<>> THEN "fetch" ELSE AfterFetch(l.existing_files)]

\* _get_repo_files: GET contents/{path} of the root or of a directory met
\* in a listing; its entries are gone through before what is left.
FetchList(t) ==
    /\ pc[t] = "fetch" /\ Head(loc[t].todo).type = "dir"
    /\ \E fail \in BOOLEAN :
         LET path == Head(loc[t].todo).path
             status == IF fail THEN 500 ELSE IF repo.exists THEN 200 ELSE 404
         IN  /\ Called(t, "store", "list", path, <<>>, status)
             /\ IF status # 200
                THEN /\ pc' = [pc EXCEPT ![t] = "raised"]
                     /\ UNCHANGED loc
                ELSE Fetched(t, [loc[t] EXCEPT !.todo =
                                    ListDir(repo.files, path) \o Tail(@)])
    /\ UNCHANGED <<ex, gen, req, response, repo, commits, sink, writes>>

\* _get_repo_files: GET download_url of a file of a listing; a file that
\* does not download is left out.
FetchFile(t) ==
    /\ pc[t] = "fetch" /\ Head(loc[t].todo).type = "file"
    /\ \E fail \in BOOLEAN :
         LET path == Head(loc[t].todo).path
             status == IF fail THEN 500
                       ELSE IF path \in DOMAIN repo.files THEN 200 ELSE 404
         IN  /\ Called(t, "store", "download", path, <<>>, status)
             /\ Fetched(t, [loc[t] EXCEPT
                              !.todo = Tail(@),
                              !.existing_files =
                                 IF status = 200
                                 THEN Dict(DictPut(@.e, Str(path), Str(repo.files[path])))
                                 ELSE @])
    /\ UNCHANGED <<ex, gen, req, response, repo, commits, sink, writes>>

\* generate_app_code with existing files, up to the modification call: the
\* relevance call, the filter and the context; an exception of either
\* leaves the round.
RelevanceCall(t) ==
    /\ pc[t] = "filter"
    /\ \E reply \in WorkRelevanceReplies :
         LET response_dict == ExecuteLlmCall(reply)
             all_file_paths == List(Keys(loc[t].existing_files))
             relevant == LlmFilterRelevantFiles(response_dict, all_file_paths)
             context == ContextFiles(loc[t].existing_files, relevant.val)
         IN  /\ Called(t, "llm", "relevance", <<>>, <<>>, 200)
             /\ pc' = [pc EXCEPT ![t] =
                         IF relevant.st # "ok" \/ context.st # "ok"
                         THEN "raised" ELSE "modify"]
    /\ UNCHANGED <<ex, gen, req, loc, response, repo, commits, sink, writes>>

\* _modify_existing_app: the modification call; then, in _handle_round_2,
\* the attachments.
ModifyCall(t) ==
    /\ pc[t] = "modify"
    /\ \E reply \in WorkReplies :
         /\ Called(t, "llm", "modification", <<>>, <<>>,
                   IF reply.kind = "raise" THEN 500 ELSE 200)
         /\ Generated(t, ExecuteLlmCall(reply), AfterRound(0))
    /\ UNCHANGED <<ex, gen, req, response, repo, commits, sink, writes>>

\* An upload that never sends a version identifier.
ExistingFileShaNone(content) == <<>>

\* existing_file_sha = get_resp.json().get("sha")
ExistingFileSha(content) == BlobSha(content)

\* An existence check whose status is not looked at.
GetFailedNever(status) == FALSE

\* if status == 200 ... elif status != 404: raise
GetFailed(status) == status \notin {200, 404}

\* f"{path}" of a key of the generated files.
PathOf(k) == IF k.t = "str" THEN k.s ELSE <<NUM>>

\* The path and the content the upload loop is at.
Current(t) == UploadItems(loc[t])[loc[t].i]

\* upload_or_update_file up to the PUT: GET contents/{path} tells whether
\* the file exists; any status other than 200 and 404 raises.  Then the
\* content is encoded, which raises for what is neither text nor bytes.
CheckExisting(t) ==
    /\ pc[t] = "get"
    /\ \E fail \in BOOLEAN :
         LET path == PathOf(Current(t).k)
             status == IF fail THEN 500
                       ELSE IF repo.exists /\ path \in DOMAIN repo.files
                       THEN 200 ELSE 404
         IN  /\ Called(t, "store", "get", path, <<>>, status)
             /\ loc' = [loc EXCEPT ![t].existing_file_sha =
                          IF status = 200 THEN ExistingFileSha(repo.files[path])
                          ELSE <<>>,
                                   ![t].checked_at = commits]
             /\ pc' = [pc EXCEPT ![t] =
                         IF GetFailed(status) THEN "raised"
                         ELSE IF Current(t).v.t \notin {"str", "bytes"} THEN "raised"
                         ELSE "put"]
    /\ UNCHANGED <<ex, gen, req, response, repo, commits, sink, writes>>

\* A write whose status is not looked at.
PutFailedNever(status) == FALSE

\* if put_resp.status_code not in [200, 201]: raise
PutFailed(status) == status \notin {200, 201}

\* upload_or_update_file: PUT contents/{path} with the version identifier
\* read; the commit id of the answer is kept and the loop goes on.  The
\* store commits the write when it answers 200 or 201.
PutFile(t) ==
    /\ pc[t] = "put"
    /\ \E fail \in BOOLEAN :
         LET path == PathOf(Current(t).k)
             body == Current(t).v.s
             sha == loc[t].existing_file_sha
             status == IF fail THEN 500
                       ELSE IF ~PutAccepted(repo, path, sha)
                       THEN (IF sha = <<>> THEN 422 ELSE 409)
                       ELSE IF path \in DOMAIN repo.files THEN 200 ELSE 201
             more == loc[t].i < Len(UploadItems(loc[t]))
         IN  /\ Called(t, "store", "put", path, body, status)
             /\ IF status \in {200, 201}
                THEN /\ repo' = [repo EXCEPT !.files = (path :> body) @@ @]
                     /\ commits' = commits + 1
                     /\ writes' = [writes EXCEPT ![t] = Append(@,
                            [path |-> path, body |-> body, sent |-> sha,
                             replaced |-> IF path \in DOMAIN repo.files
                                          THEN BlobSha(repo.files[path]) ELSE <<>>,
                             commit |-> commits + 1])]
                ELSE UNCHANGED <<repo, commits, writes>>
             /\ IF PutFailed(status)
                THEN /\ pc' = [pc EXCEPT ![t] = "raised"]
                     /\ UNCHANGED loc
                ELSE /\ loc' = [loc EXCEPT ![t].latest_commit_sha = commits',
                                           ![t].i = @ + 1]
                     /\ pc' = [pc EXCEPT ![t] =
                                 IF more THEN "get"
                                 ELSE IF req[t].round = 1 THEN "pages"
                                 ELSE AfterRound(commits')]
    /\ UNCHANGED <<ex, gen, req, response, sink>>

\* _handle_round_1: POST pages; a status other than 201 and 204 is printed
\* and the round goes on.
EnablePages(t) ==
    /\ pc[t] = "pages"
    /\ \E fail \in BOOLEAN :
         LET status == IF fail THEN 500 ELSE IF repo.pages THEN 409 ELSE 201
         IN  /\ Called(t, "store", "pages", <<>>, <<>>, status)
             /\ repo' = [repo EXCEPT !.pages = @ \/ status = 201]
    /\ pc' = [pc EXCEPT ![t] = AfterRound(loc[t].latest_commit_sha)]
    /\ UNCHANGED <<ex, gen, req, loc, response, commits, sink, writes>>

\* A notification whose status is not looked at.
NotifyFailedNever(status) == FALSE

\* if eval_resp.status_code != 200: raise
NotifyFailed(status) == status # 200

\* handle_task: POST evaluation_url with the last commit id.  The sink
\* keeps the notification when it answers 200.
Notify(t) ==
    /\ pc[t] = "notify"
    /\ \E fail \in BOOLEAN :
         LET status == IF fail THEN 500 ELSE 200
         IN  /\ Called(t, "notify", "notify", <<>>, <<>>, status)
             /\ pc' = [pc EXCEPT ![t] =
                         IF NotifyFailed(status) THEN "raised" ELSE "finished"]
             /\ sink' = IF status # 200 THEN sink
                        ELSE sink \cup {[task |-> t, round |-> req[t].round,
                                         commit_sha |-> loc[t].latest_commit_sha]}
    /\ UNCHANGED <<ex, gen, req, loc, response, repo, commits, writes>>

\* receive_task after handle_task: the answer to the requester, 200 when the
\* handler returned and 500 when it raised.
Respond(t) ==
    /\ pc[t] \in {"finished", "raised"}
    /\ response' = [response EXCEPT ![t] = IF pc[t] = "finished" THEN 200 ELSE 500]
    /\ pc' = [pc EXCEPT ![t] = "done"]
    /\ UNCHANGED <<ex, gen, req, loc, last, cnt, repo, commits, sink, writes>>

Next ==
    \E t \in Tasks :
        \/ ReceiveTask(t)
        \/ CreateRepo(t)
        \/ Synthesize(t)
        \/ FetchList(t)
        \/ FetchFile(t)
        \/ RelevanceCall(t)
        \/ ModifyCall(t)
        \/ CheckExisting(t)
        \/ PutFile(t)
        \/ EnablePages(t)
        \/ Notify(t)
        \/ Respond(t)

Spec == Init /\ [][Next]_vars

\* ------------------------------------- two tasks at once (SpecConc)
\* receive_task serves requests as they come, each handler in a thread of
\* its own: two valid tasks for the same repository, their steps interleaved.
\* Rounds 1 and 2 stand for the two handlers; which task is t1 does not
\* matter, so the earlier round is given to t1.

ConcRequests ==
    {r \in Requests :
        r.secret = ExpectedSecret /\ r.round \in {1, 2} /\ r.attachments = <<>>}

ConcInit ==
    /\ ex = ExIdle /\ gen = GenIdle
    /\ req \in [Tasks -> ConcRequests]
    /\ req["t1"].round <= req["t2"].round
    /\ pc = [t \in Tasks |-> "received"]
    /\ loc = [t \in Tasks |-> NoLocals]
    /\ last = [t \in Tasks |-> NoCall]
    /\ cnt = [t \in Tasks |-> NoCalls]
    /\ response = [t \in Tasks |-> 0]
    /\ repo \in {r \in InitialRepos : Cardinality(DOMAIN r.files) < MaxExisting}
    /\ commits = IF repo.exists THEN 1 ELSE 0
    /\ sink = {}
    /\ writes = [t \in Tasks |-> <<>>]

SpecConc == ConcInit /\ [][Next]_vars

\* ------------------------------------------- properties of the extractor

NoBraces(c) == \A i \in 1..Len(c) : c[i] \notin {LB, RB}

RECURSIVE ExpectedFrom(_, _)
\* What the mapping literal m denotes: each key once, in the order the keys
\* first appear, with the value of its last entry.
ExpectedFrom(m, n) ==
    IF n > Len(m) THEN <<>>
    ELSE (IF \E j \in 1..(n - 1) : m[j].k = m[n].k THEN <<>>
          ELSE LET final == Max({j \in 1..Len(m) : m[j].k = m[n].k}) IN
               <<[k |-> Str(m[n].k), v |-> Str(m[final].v)]>>)
         \o ExpectedFrom(m, n + 1)

\* C3: a reply holding exactly one well-formed mapping literal of strings to
\* strings, with brace-free prose around it, comes back as that mapping:
\* the same keys and values and nothing else.
C3_MappingReturnedUnchanged ==
    (ex.pc = "returned" /\ ex.shape = "mapping")
        => ex.result = Dict(ExpectedFrom(ex.mapping, 1))

\* A two-file mapping with a brace inside a value and prose on both sides
\* has been extracted.
C3_Witness ==
    /\ ex.pc = "returned" /\ ex.shape = "mapping"
    /\ Len(ex.mapping) = 2 /\ ex.mapping[1].k # ex.mapping[2].k
    /\ \E n \in 1..2 : ~NoBraces(ex.mapping[n].v)
    /\ ex.reply.content[1] # LB
    /\ ex.reply.content[Len(ex.reply.content)] # RB
    /\ Len(ex.result.e) = 2

\* The brace-delimited span of the reply is no literal mapping.
SpanFailsToParse(c) ==
    /\ BraceSpan(c) # <<>>
    /\ LET r == LiteralEval(BraceSpan(c)) IN r.st # "ok" \/ r.val.t # "dict"

\* C4: whenever the brace-delimited span does not parse as a literal mapping,
\* whatever the kind of failure, the result is a single entry under an
\* error-marker path whose value contains the raw reply.
C4_ParseFailureKeepsRawText ==
    (ex.pc = "returned" /\ ex.reply.kind = "text" /\ SpanFailsToParse(ex.reply.content))
        => /\ Len(ex.result.e) = 1
           /\ ex.result.e[1].k \in {Str(ErrorTxt), Str(ErrorHtml)}
           /\ Contains(ex.result.e[1].v.s, ex.reply.content)

\* C5: a reply without any brace comes back as the single entry
\* index.html -> the raw reply, so the result is never empty there.
C5_NoBraceFallback ==
    (ex.pc = "returned" /\ ex.reply.kind = "text" /\ NoBraces(ex.reply.content))
        => /\ Len(ex.result.e) = 1
           /\ ex.result.e[1] = [k |-> Str(IndexHtml), v |-> Str(ex.reply.content)]

\* A brace-free reply of several symbols, a bracket among them, has been
\* turned into the fallback file.
C5_Witness ==
    /\ ex.pc = "returned" /\ ex.reply.kind = "text"
    /\ NoBraces(ex.reply.content)
    /\ Len(ex.reply.content) >= 3
    /\ \E i \in 1..Len(ex.reply.content) : ex.reply.content[i] = LS
    /\ ex.result.e[1].k = Str(IndexHtml)

\* --------------------------------------- properties of generate_app_code

\* C6: whatever the model replies, to the relevance query or to the
\* instruction, generate_app_code does not raise: it returns a mapping.
C6_GenerationNeverRaises ==
    /\ gen.pc # "raised"
    /\ gen.pc = "returned" => gen.result.t = "dict"

\* No value of the relevance call's mapping evaluates to a literal list.
NoListValue(d) ==
    \A n \in 1..Len(d.e) :
        LET r == LiteralEvalValue(d.e[n].v) IN ~(r.st = "ok" /\ r.val.t = "list")

\* C7: when no value of the mapping returned for the relevance query parses
\* as a literal list, the filter returns the full path list, in order, and
\* does not raise.
C7_IdentityFallback ==
    (gen.pc \in {"modify", "raised"} /\ NoListValue(gen.response_dict))
        => /\ gen.pc = "modify"
           /\ gen.relevant_file_paths = List(Keys(gen.existing_files))

\* C8: the context handed to the modification instruction is never empty,
\* whatever the relevance reply.
C8_ContextNeverEmpty ==
    gen.pc = "modify" => gen.context_files.e # <<>>

\* ------------------------------------------- properties of the workflow

Received == {t \in Tasks : req[t].present}

Stopped == {"raised", "done"}

\* The paths of the generated file set after the attachment overlay.
GeneratedPaths(l) == {PathOf(l.files.e[n].k) : n \in 1..Len(l.files.e)}

\* C1: in a round >= 2 every write goes to a key of the generated file set
\* after the overlay, and a step of the round leaves every file of another
\* path in the store with the content and version identifier it had.
C1_RoundTwoFrame ==
    [][\A t \in Received :
         (req[t].round >= 2 /\ cnt'[t] # cnt[t]) =>
            /\ last'[t].op = "put" => last'[t].path \in GeneratedPaths(loc[t])
            /\ \A p \in (DOMAIN repo.files) \cup (DOMAIN repo'.files) :
                 p \notin GeneratedPaths(loc[t]) =>
                    /\ p \in DOMAIN repo.files /\ p \in DOMAIN repo'.files
                    /\ repo'.files[p] = repo.files[p]
                    /\ BlobSha(repo'.files[p]) = BlobSha(repo.files[p])]_vars

\* A round >= 2 has written a file of a store that holds another file, which
\* is not in its generated set.
C1_Witness ==
    \E t \in Received :
        /\ req[t].round >= 2
        /\ last[t].op = "put" /\ last[t].status = 200
        /\ repo.files[last[t].path] = last[t].body
        /\ \E p \in DOMAIN repo.files : p \notin GeneratedPaths(loc[t])

\* The last attachment of the list with that name.
LastNamed(attachments, name) ==
    attachments[Max({n \in 1..Len(attachments) : attachments[n].name = name})]

\* C2: a write to a path that the generated file set and an attachment share
\* carries the decoded bytes of the attachment, in round 1 and in round >= 2.
C2_AttachmentPrecedence ==
    \A t \in Received :
        (/\ last[t].op = "put"
         /\ HasKey(loc[t].generated, Str(last[t].path))
         /\ \E n \in 1..Len(req[t].attachments) :
                req[t].attachments[n].name = last[t].path)
        => last[t].body =
              AttachmentBytes(LastNamed(req[t].attachments, last[t].path)).val.s

\* A round >= 2 has replaced a stored file by the bytes of an attachment
\* although the model had generated other content for the path.
C2_Witness ==
    \E t \in Received :
        /\ req[t].round >= 2
        /\ last[t].op = "put" /\ last[t].status = 200
        /\ HasKey(loc[t].generated, Str(last[t].path))
        /\ Get(loc[t].generated, Str(last[t].path)).s # last[t].body
        /\ \E n \in 1..Len(req[t].attachments) :
              /\ req[t].attachments[n].name = last[t].path
              /\ AttachmentBytes(req[t].attachments[n]).val.s = last[t].body
        /\ repo.files[last[t].path] = last[t].body

\* C9: a task with a wrong secret or with a round number below 1 makes no
\* model call, no store call and no notification.
C9_InvalidTaskDoesNothing ==
    \A t \in Received :
        (req[t].secret # ExpectedSecret \/ req[t].round < 1)
        => /\ cnt[t] = NoCalls /\ last[t] = NoCall
           /\ \A n \in sink : n.task # t
           /\ response[t] # 200

\* A task with the right secret and round 0 or less has been answered with
\* an error while the repository it names exists.
C9_Witness ==
    \E t \in Received :
        /\ req[t].secret = ExpectedSecret /\ req[t].round < 1
        /\ pc[t] = "done" /\ response[t] = 500
        /\ repo.exists /\ repo.files # <<>>

StoreOps == {"create", "list", "get", "put"}

\* C10 as stated: any non-success status of a creation, a listing, an
\* existence check or a write stops the round.
C10_AnyNonSuccessAborts ==
    \A t \in Received :
        (last[t].op \in StoreOps /\ last[t].status \notin {200, 201})
        => pc[t] \in Stopped

\* The statuses that stop the round: any non-success one, except not-found
\* on the existence check, which means the file is to be created.
FatalStatus(call) ==
    /\ call.op \in StoreOps
    /\ call.status \notin {200, 201}
    /\ ~(call.op = "get" /\ call.status = 404)

\* C10, with not-found on the existence check set apart: such a status
\* stops the round with an error; a stopped round makes no further call, so
\* no write, no retry and no notification; and the failing call leaves the
\* store as it was, the writes made before it included.
C10_StoreFailureAborts ==
    /\ [](\A t \in Received :
            FatalStatus(last[t]) => pc[t] \in Stopped /\ response[t] # 200)
    /\ [][\A t \in Received :
            /\ pc[t] \in Stopped => cnt'[t] = cnt[t] /\ last'[t] = last[t]
            /\ (cnt'[t] # cnt[t] /\ FatalStatus(last'[t])) => repo' = repo]_vars

\* A round 1 has stopped at a failed write of its second file, and the first
\* file it wrote is in the store.
C10_Witness ==
    \E t \in Received :
        /\ last[t].op = "put" /\ last[t].status = 500
        /\ pc[t] = "done" /\ response[t] = 500
        /\ loc[t].i = 2 /\ loc[t].latest_commit_sha # 0
        /\ LET first == UploadItems(loc[t])[1]
           IN  /\ PathOf(first.k) \in DOMAIN repo.files
               /\ repo.files[PathOf(first.k)] = first.v.s

\* C11: when the hosting call of round 1 gets a non-success status the round
\* stops, and a round 1 that has notified the sink has hosting switched on.
C11_HostingFailureFatal ==
    /\ \A t \in Received :
         (last[t].op = "pages" /\ last[t].status \notin {201, 204})
         => pc[t] \in Stopped
    /\ \A n \in sink : n.round = 1 => repo.pages

\* The writes of a task that the store holds: of each path, the last one.
LastWrites(t) ==
    {n \in 1..Len(writes[t]) :
        \A m \in (n + 1)..Len(writes[t]) : writes[t][m].path # writes[t][n].path}

\* C12: a notification of a round carries the commit id that the last write
\* of the round returned, so there is such a write; and a round whose file
\* set is empty after the overlay fails and notifies nobody.
C12_NotifiedWithLastWriteId ==
    /\ \A n \in sink :
         /\ writes[n.task] # <<>>
         /\ n.commit_sha = writes[n.task][Len(writes[n.task])].commit
         /\ n.commit_sha # 0
         /\ n.round = req[n.task].round
    /\ \A t \in Received :
         (loc[t].generated # NoValue /\ loc[t].files.e = <<>>)
         => /\ cnt[t].notify = 0
            /\ pc[t] \in {"pages"} \cup Stopped
            /\ response[t] # 200

\* A round that wrote two files has notified the sink with the commit id of
\* the second write.
C12_Witness ==
    \E n \in sink :
        /\ Len(writes[n.task]) = 2
        /\ n.commit_sha = writes[n.task][2].commit
        /\ n.commit_sha # writes[n.task][1].commit
        /\ response[n.task] = 200

\* C13: when the sink answers the notification with another status than
\* success the round fails; the notification was sent once, nothing is
\* notified, and every write of the round is still in the store.
C13_NotificationFailureFatal ==
    \A t \in Received :
        (last[t].op = "notify" /\ last[t].status # 200)
        => /\ pc[t] \in Stopped /\ response[t] # 200
           /\ cnt[t].notify = 1
           /\ \A n \in sink : n.task # t
           /\ writes[t] # <<>>
           /\ \A n \in LastWrites(t) :
                 /\ writes[t][n].path \in DOMAIN repo.files
                 /\ repo.files[writes[t][n].path] = writes[t][n].body

\* A round 2 whose two writes are in the store has been answered with an
\* error after the sink refused its notification.
C13_Witness ==
    \E t \in Received :
        /\ req[t].round >= 2
        /\ last[t].op = "notify" /\ last[t].status = 500
        /\ pc[t] = "done" /\ response[t] = 500
        /\ Len(writes[t]) = 2
        /\ \A n \in 1..2 : repo.files[writes[t][n].path] = writes[t][n].body

\* C14: the answer to the requester of a valid task does not depend on how
\* generation, publishing and notification end: it is the acknowledgement.
C14_AcknowledgedWhateverHappens ==
    \A t \in Received :
        (req[t].secret = ExpectedSecret /\ req[t].round >= 1 /\ response[t] # 0)
        => response[t] = 200

\* ------------------------------------------ properties of concurrent tasks

\* C15: every committed write replaced the version its writer had read in
\* its own existence check (none where it had found no file); a writer
\* whose write is refused for its version identifier fails as a whole, with
\* no notification, and a stopped round makes no further call.
C15_NoLostUpdate ==
    /\ [](\A t \in Received :
            /\ \A n \in 1..Len(writes[t]) : writes[t][n].replaced = writes[t][n].sent
            /\ (last[t].op = "put" /\ last[t].status \in {409, 422})
               => /\ pc[t] \in Stopped /\ response[t] # 200
                  /\ \A n \in sink : n.task # t)
    /\ [][\A t \in Received :
            pc[t] \in Stopped => cnt'[t] = cnt[t] /\ last'[t] = last[t]]_vars

\* Two rounds read the same version of a file; one wrote it, the write of
\* the other was refused and its round has failed, and the store holds what
\* the first one wrote.
C15_Witness ==
    \E t \in Received, u \in Received :
        /\ t # u
        /\ last[t].op = "put" /\ last[t].status = 409
        /\ pc[t] = "done" /\ response[t] = 500
        /\ \E n \in 1..Len(writes[u]) :
              /\ writes[u][n].path = last[t].path
              /\ writes[u][n].sent = loc[t].existing_file_sha
              /\ writes[u][n].body # last[t].body
              /\ repo.files[last[t].path] = writes[u][n].body

\* C16: a write of the content a file already holds, with no commit since
\* the existence check, sends the current version identifier of the file,
\* is accepted whenever the store answers, returns a commit id that no
\* earlier write has returned, and leaves the content as it was.
C16_PublishIdempotent ==
    [][\A t \in Received :
         (/\ pc[t] = "put" /\ cnt'[t].store = cnt[t].store + 1
          /\ PathOf(Current(t).k) \in DOMAIN repo.files
          /\ repo.files[PathOf(Current(t).k)] = Current(t).v.s
          /\ loc[t].checked_at = commits
          /\ last'[t].status # 500)
         => /\ loc[t].existing_file_sha = BlobSha(repo.files[PathOf(Current(t).k)])
            /\ last'[t].status = 200
            /\ loc'[t].latest_commit_sha = commits + 1
            /\ \A u \in Received : \A n \in 1..Len(writes[u]) :
                  writes[u][n].commit # loc'[t].latest_commit_sha
            /\ repo'.files = repo.files]_vars

\* The paths and contents a task has written, in order.
Published(t) ==
    [n \in 1..Len(writes[t]) |-> <<writes[t][n].path, writes[t][n].body>>]

\* Two tasks have published the same two files one after the other, both
\* with success; each write of the second sent the identifier of what the
\* first had written and got a commit id of its own.
C16_Witness ==
    \E t \in Received, u \in Received :
        /\ t # u
        /\ response[t] = 200 /\ response[u] = 200
        /\ Len(writes[t]) = 2 /\ Published(u) = Published(t)
        /\ writes[t][2].commit < writes[u][1].commit
        /\ \A n \in 1..2 :
              /\ writes[u][n].sent = BlobSha(writes[t][n].body)
              /\ writes[u][n].commit # writes[t][n].commit
              /\ repo.files[writes[u][n].path] = writes[t][n].body

\* ------------------------------------------------ properties of the rounds

\* The paths a task has written, in order.
WrittenPaths(t) == [n \in 1..Len(writes[t]) |-> writes[t][n].path]

\* The paths of its file set, in order.
PathsToWrite(t) == [n \in 1..Len(loc[t].files.e) |-> PathOf(loc[t].files.e[n].k)]

\* C17: each call of a round 1 comes in its place: the creation first; the
\* one synthesis call right after a creation answered 201; an existence
\* check after the synthesis or after a committed write; a write right
\* after the existence check of its path, one file at a time; the hosting
\* call once every file of the set is written; the notification right after
\* the hosting call.  After a failed creation there is no call at all.
C17_RoundOneOrder ==
    [][\A t \in Received :
         (req[t].round = 1 /\ cnt'[t] # cnt[t]) =>
            LET op == last'[t].op IN
            /\ op \in {"create", "synthesis", "get", "put", "pages", "notify"}
            /\ op = "create" => cnt[t] = NoCalls
            /\ op = "synthesis" =>
                  last[t].op = "create" /\ last[t].status = 201 /\ cnt[t].llm = 0
            /\ op = "get" =>
                  /\ cnt[t].llm = 1
                  /\ \/ last[t].op = "synthesis"
                     \/ last[t].op = "put" /\ last[t].status \in {200, 201}
            /\ op = "put" =>
                  /\ last[t].op = "get" /\ last[t].path = last'[t].path
                  /\ Len(writes'[t]) <= Len(writes[t]) + 1
            /\ op = "pages" =>
                  cnt[t].llm = 1 /\ WrittenPaths(t) = PathsToWrite(t)
            /\ op = "notify" => last[t].op = "pages"
            /\ (last[t].op = "create" /\ last[t].status # 201) => FALSE]_vars

\* A round 1 has created the repository, written two files, switched
\* hosting on and notified the sink.
C17_Witness ==
    \E t \in Received :
        /\ req[t].round = 1 /\ response[t] = 200
        /\ cnt[t].llm = 1 /\ Len(writes[t]) = 2
        /\ repo.pages
        /\ \E n \in sink : n.task = t /\ n.commit_sha = writes[t][2].commit

\* C18: the context of the modification call is a sub-mapping of
\* existing_files: its keys are the paths the filter returned that
\* existing_files has, each with the content of the snapshot; and
\* existing_files is never changed.
C18_ContextIsSubMapping ==
    /\ [](gen.pc = "modify" =>
            /\ \A n \in 1..Len(gen.context_files.e) :
                  LET entry == gen.context_files.e[n] IN
                  /\ \E m \in 1..Len(gen.relevant_file_paths.e) :
                        gen.relevant_file_paths.e[m] = entry.k
                  /\ HasKey(gen.existing_files, entry.k)
                  /\ entry.v = Get(gen.existing_files, entry.k)
                  /\ \A m \in 1..Len(gen.context_files.e) :
                        m # n => gen.context_files.e[m].k # entry.k
            /\ \A m \in 1..Len(gen.relevant_file_paths.e) :
                  HasKey(gen.context_files, gen.relevant_file_paths.e[m])
                    <=> HasKey(gen.existing_files, gen.relevant_file_paths.e[m]))
    /\ [][gen.pc # "idle" => gen'.existing_files = gen.existing_files]_vars

\* Of two existing files the filter returned one, together with a path the
\* snapshot does not have: the context is the one file.
C18_Witness ==
    /\ gen.pc = "modify"
    /\ Len(gen.existing_files.e) = 2
    /\ Len(gen.relevant_file_paths.e) = 2
    /\ Len(gen.context_files.e) = 1
    /\ \E m \in 1..2 : ~HasKey(gen.existing_files, gen.relevant_file_paths.e[m])

\* C19: a round >= 2 makes no creation, synthesis or hosting call; it makes
\* a model call only with a snapshot of at least one file; and once its
\* fetch is over with an empty snapshot it has stopped without a model
\* call, a write or a notification.
C19_RoundTwoNeverCreates ==
    \A t \in Received :
        req[t].round >= 2 =>
            /\ last[t].op \notin {"create", "synthesis", "pages"}
            /\ cnt[t].llm > 0 => loc[t].existing_files.e # <<>>
            /\ (pc[t] \notin {"received", "fetch"} /\ loc[t].existing_files.e = <<>>)
               => /\ pc[t] \in Stopped
                  /\ cnt[t].llm = 0 /\ cnt[t].notify = 0 /\ writes[t] = <<>>
                  /\ \A n \in sink : n.task # t

\* A round 2 on a repository with a file has stopped with an error because
\* the download of the file failed and the snapshot was empty.
C19_Witness ==
    \E t \in Received :
        /\ req[t].round >= 2 /\ req[t].secret = ExpectedSecret
        /\ repo.exists /\ repo.files # <<>>
        /\ last[t].op = "download" /\ last[t].status = 500
        /\ loc[t].existing_files.e = <<>>
        /\ pc[t] = "done" /\ response[t] = 500 /\ cnt[t].llm = 0

====
